---- MODULE Spec2Model ----
(***************************************************************************)
(* Model of src/app/page.tsx (AudioRecorderPage): the React state of the   *)
(* page, the startRecording / stopRecording / processAudio handlers, the   *)
(* MediaRecorder callbacks and the two network requests of processAudio.   *)
(* Every await of the source is a suspension point: the part of a handler  *)
(* between two awaits is one action.                                       *)
(***************************************************************************)
EXTENDS Integers, Sequences, FiniteSets, TLC

\* ------------------------------------------------------------------ bounds
MaxStarts == 2      \* startRecording invocations modelled
MaxProcs == 2       \* processAudio invocations alive at a time
MaxChunk == 1       \* largest event.data.size delivered by a recorder
MaxEmailLen == 5    \* longest email typed, character by character

StartIds == 1..MaxStarts
ProcIds == 1..MaxProcs

\* ------------------------------------------------------------- input sets
NoKey == ""
ApiKeys == {NoKey, "sk-test"}
NoEmail == << >>
GoodEmail == <<"a", "@", "b", ".", "c">>
BadEmail == <<"a", "@", "b">>
Emails == {NoEmail, GoodEmail, BadEmail}
NoText == ""
Undefined == "undefined"
Texts == {"hello world", Undefined}

\* --------------------------------------------------------------- messages
MsgNone == ""
MsgStarted == "Recording started... Click DONE when finished."
MsgStartError == "Error: Could not start recording. Please check permissions."
MsgStopped == "Recording stopped. Click Process Audio to transcribe."
MsgEnsure == "Please ensure you have recorded audio, entered a valid API key, and email."
MsgTranscribing == "Transcribing audio..."
MsgTranscribed == "Transcription complete. Sending to Lamatic AI..."
MsgSuccess == "Success! Audio processed and sent to Lamatic AI. Check your email for results."
MsgErrTranscription == "Error: Transcription failed"
MsgErrLamatic == "Error: Failed to send to Lamatic AI"
MsgErrOther == "Error: <thrown error message>"

NoRecorder == 0
\* audioBlob: null, or the Blob an onstop built: by - the recorder whose onstop
\* built it, size - its byte length, own - the bytes that recorder delivered
NoBlob == [by |-> 0, size |-> 0, own |-> 0]

VARIABLES
  isRecording, audioBlob, apiKey, email, transcription, isProcessing,
  message, hasAudio,
  mediaRecorderRef,   \* id of the startRecording invocation whose recorder is installed
  audioChunksRef,     \* sequence of the sizes of the buffered chunks
  starts,             \* the startRecording invocations: position, streams, graph, recorder
  procs,              \* the processAudio invocations: position, requests, closure
  noopStops           \* whether stopRecording was called while no recording was active

vars == <<isRecording, audioBlob, apiKey, email, transcription, isProcessing,
          message, hasAudio, mediaRecorderRef, audioChunksRef, starts, procs,
          noopStops>>

pageState == <<isRecording, audioBlob, apiKey, email, transcription,
               isProcessing, message, hasAudio>>

\* ------------------------------------------------------------- validation
NotWsAt(c) == c # " " /\ c # "@"

\* the pattern without its "\." : /^[^\s@]+@[^"]+[^\s@]+$/
validateEmail_NoDot(s) ==
  \E i \in 1..Len(s), j \in 1..Len(s) :
    /\ i > 1 /\ s[i] = "@"
    /\ j > i + 1 /\ j <= Len(s)
    /\ \A k \in 1..(i - 1) : NotWsAt(s[k])
    /\ \A k \in (i + 1)..(j - 1) : s[k] # "\""
    /\ \A k \in j..Len(s) : NotWsAt(s[k])

\* /^[^\s@]+@[^"]+\.[^\s@]+$/ : i is the "@" that ends the local part, j the
\* "." that the backtracking match of [^"]+ stops before.
validateEmail(s) ==
  \E i \in 1..Len(s), j \in 1..Len(s) :
    /\ i > 1 /\ s[i] = "@"
    /\ j > i + 1 /\ j < Len(s) /\ s[j] = "."
    /\ \A k \in 1..(i - 1) : NotWsAt(s[k])
    /\ \A k \in (i + 1)..(j - 1) : s[k] # "\""
    /\ \A k \in (j + 1)..Len(s) : NotWsAt(s[k])

RECURSIVE SumSizes(_)
\* Blob.size of new Blob(chunks): the sizes of the parts added up
SumSizes(chunks) ==
  IF chunks = << >> THEN 0 ELSE Head(chunks) + SumSizes(Tail(chunks))

\* ------------------------------------------------------------------- Init
FreshStart ==
  [pc |-> "unused", mic |-> "none", tab |-> "none", ctx |-> "none",
   rec |-> "none", artifacts |-> 0]

\* a processAudio invocation: pc - its position; whisper, relay - the state of
\* its two requests; nWhisper, nRelay - how many of each it issued; exit - how
\* it settled; key, mail - apiKey and email of its closure; bearer - the token
\* of the Authorization header it sent; text - the text field of the parsed
\* response; sentText, sentMail - transcribed_text and user_email of the
\* relay body it sent
FreshProc ==
  [pc |-> "unused", whisper |-> "none", relay |-> "none", exit |-> "none",
   nWhisper |-> 0, nRelay |-> 0,
   key |-> NoKey, mail |-> NoEmail, bearer |-> NoKey,
   text |-> NoText, sentText |-> NoText, sentMail |-> NoEmail]

Init ==
  /\ isRecording = FALSE
  /\ audioBlob = NoBlob
  /\ apiKey = NoKey
  /\ email = NoEmail
  /\ transcription = NoText
  /\ isProcessing = FALSE
  /\ message = MsgNone
  /\ hasAudio = FALSE
  /\ mediaRecorderRef = NoRecorder
  /\ audioChunksRef = << >>
  /\ starts = [i \in StartIds |-> FreshStart]
  /\ procs = [p \in ProcIds |-> FreshProc]
  /\ noopStops = FALSE

\* ------------------------------------------------------------ form fields
\* onChange of the API key input
setApiKey(k) ==
  /\ k # apiKey
  /\ apiKey' = k
  /\ UNCHANGED <<isRecording, audioBlob, email, transcription, isProcessing,
                 message, hasAudio, mediaRecorderRef, audioChunksRef, starts,
                 procs, noopStops>>

\* an onChange that also abandons the pipeline in flight
setEmail_Cancels(e) ==
  /\ e # email
  /\ email' = e
  /\ isProcessing' = FALSE
  /\ UNCHANGED <<isRecording, audioBlob, apiKey, transcription,
                 message, hasAudio, mediaRecorderRef, audioChunksRef, starts,
                 procs, noopStops>>

\* onChange of the email input
setEmail(e) ==
  /\ e # email
  /\ email' = e
  /\ UNCHANGED <<isRecording, audioBlob, apiKey, transcription, isProcessing,
                 message, hasAudio, mediaRecorderRef, audioChunksRef, starts,
                 procs, noopStops>>

\* ---------------------------------------------------------- startRecording
CredentialsValid == apiKey # NoKey /\ validateEmail(email)

\* the Start Recording button is rendered
StartShown == ~isRecording /\ ~hasAudio

\* the button without its disabled attribute
StartEnabled_NoCredentialCheck == StartShown

\* the Start Recording button is rendered and not disabled
StartEnabled == StartShown /\ CredentialsValid

\* the invocation a new click runs as: the lowest unused one
NextStart == CHOOSE i \in StartIds :
               starts[i].pc = "unused" /\ \A j \in 1..(i - 1) : starts[j].pc # "unused"

\* click on Start Recording: startRecording runs up to the getUserMedia await
StartClick ==
  /\ StartEnabled
  /\ \E i \in StartIds : starts[i].pc = "unused"
  /\ starts' = [starts EXCEPT ![NextStart] =
                  [@ EXCEPT !.pc = "awaitMic"]]
  /\ UNCHANGED <<pageState, mediaRecorderRef, audioChunksRef, procs, noopStops>>

\* getUserMedia resolves: micStream is held and getDisplayMedia is requested
MicResolve(i) ==
  /\ starts[i].pc = "awaitMic"
  /\ starts' = [starts EXCEPT ![i] =
                  [@ EXCEPT !.pc = "awaitTab", !.mic = "open"]]
  /\ UNCHANGED <<pageState, mediaRecorderRef, audioChunksRef, procs, noopStops>>

\* a catch block without setMessage
startCatch_NoMessage(i, st) ==
  /\ starts' = [starts EXCEPT ![i] = [st EXCEPT !.pc = "failed"]]
  /\ UNCHANGED message

\* the catch block of startRecording
startCatch(i, st) ==
  /\ starts' = [starts EXCEPT ![i] = [st EXCEPT !.pc = "failed"]]
  /\ message' = MsgStartError

\* getUserMedia rejects
MicReject(i) ==
  /\ starts[i].pc = "awaitMic"
  /\ startCatch(i, starts[i])
  /\ UNCHANGED <<isRecording, audioBlob, apiKey, email, transcription,
                 isProcessing, hasAudio, mediaRecorderRef, audioChunksRef,
                 procs, noopStops>>

\* getDisplayMedia rejects: micStream is already held
TabReject(i) ==
  /\ starts[i].pc = "awaitTab"
  /\ startCatch(i, starts[i])
  /\ UNCHANGED <<isRecording, audioBlob, apiKey, email, transcription,
                 isProcessing, hasAudio, mediaRecorderRef, audioChunksRef,
                 procs, noopStops>>

SetupOutcomes == {"ok", "graphThrows", "startThrows"}

\* getDisplayMedia resolves: the rest of the try block runs to its end or to
\* the statement that throws: graphThrows - a statement of lines 41-52, after
\* the AudioContext was made (createMediaStreamSource on a stream without an
\* audio track, or the MediaRecorder constructor); startThrows - start()
TabResolve(i, outcome) ==
  /\ starts[i].pc = "awaitTab"
  /\ LET held == [starts[i] EXCEPT !.tab = "open"]
         graph == [held EXCEPT !.ctx = "running"]
     IN
     CASE outcome = "graphThrows" ->
            /\ startCatch(i, graph)
            /\ UNCHANGED <<isRecording, mediaRecorderRef, audioChunksRef>>
       [] outcome = "startThrows" ->
            /\ startCatch(i, [graph EXCEPT !.rec = "inactive"])
            /\ audioChunksRef' = << >>
            /\ mediaRecorderRef' = i
            /\ UNCHANGED isRecording
       [] outcome = "ok" ->
            /\ starts' = [starts EXCEPT ![i] =
                            [graph EXCEPT !.pc = "done", !.rec = "recording"]]
            /\ audioChunksRef' = << >>
            /\ mediaRecorderRef' = i
            /\ isRecording' = TRUE
            /\ message' = MsgStarted
  /\ UNCHANGED <<audioBlob, apiKey, email, transcription, isProcessing,
                 hasAudio, procs, noopStops>>

\* ----------------------------------------------------------- stopRecording
\* the if without its isRecording conjunct
stopGuard_IgnoresIsRecording == mediaRecorderRef # NoRecorder

\* the condition of the if in stopRecording
stopGuard == mediaRecorderRef # NoRecorder /\ isRecording

\* stopRecording is called; MediaRecorder.stop() on a recorder that is not
\* recording either returns or throws InvalidStateError, by browser
stopRecording(stopThrows) ==
  LET active == mediaRecorderRef # NoRecorder /\ isRecording IN
  /\ noopStops' = (noopStops \/ ~active)
  /\ IF stopGuard
       THEN LET r == mediaRecorderRef IN
            IF starts[r].rec = "recording"
              THEN /\ ~stopThrows
                   /\ starts' = [starts EXCEPT ![r].rec = "stopping"]
                   /\ isRecording' = FALSE
                   /\ message' = MsgStopped
              ELSE IF stopThrows
                     THEN UNCHANGED <<starts, isRecording, message>>
                     ELSE /\ isRecording' = FALSE
                          /\ message' = MsgStopped
                          /\ UNCHANGED starts
       ELSE /\ ~stopThrows
            /\ UNCHANGED <<starts, isRecording, message>>
  /\ UNCHANGED <<audioBlob, apiKey, email, transcription, isProcessing,
                 hasAudio, mediaRecorderRef, audioChunksRef, procs>>

\* the DONE button is rendered
StopShown == isRecording

\* click on DONE
StopClick(stopThrows) == StopShown /\ stopRecording(stopThrows)

\* mediaRecorder.ondataavailable
ondataavailable(chunks, size) ==
  IF size > 0 THEN Append(chunks, size) ELSE chunks

\* the task MediaRecorder.stop() queued: dataavailable with the data gathered,
\* then stop, whose handler builds the blob and releases the streams
RecorderStopTask(i, size) ==
  /\ starts[i].rec = "stopping"
  /\ LET chunks == ondataavailable(audioChunksRef, size) IN
     /\ audioChunksRef' = chunks
     /\ audioBlob' = [by |-> i, size |-> SumSizes(chunks), own |-> size]
     /\ hasAudio' = TRUE
     /\ starts' = [starts EXCEPT ![i] =
                     [@ EXCEPT !.rec = "stopped", !.mic = "stopped",
                               !.tab = "stopped", !.ctx = "closed",
                               !.artifacts = @ + 1]]
  /\ UNCHANGED <<isRecording, apiKey, email, transcription, isProcessing,
                 message, mediaRecorderRef, procs, noopStops>>

\* ------------------------------------------------------------ processAudio
\* the Process Audio button is rendered
ProcessShown == hasAudio /\ ~isRecording

\* the button without its disabled attribute
ProcessEnabled_NotDisabled == ProcessShown

\* the Process Audio button is rendered and not disabled
ProcessEnabled == ProcessShown /\ ~isProcessing

\* the guard without its apiKey disjunct
processGuardFails_NoKeyCheck ==
  audioBlob = NoBlob \/ ~validateEmail(email)

\* the condition of the first if of processAudio
processGuardFails ==
  audioBlob = NoBlob \/ apiKey = NoKey \/ ~validateEmail(email)

\* an invocation that has not begun or has settled
Free(p) == procs[p].pc \in {"unused", "done"}

\* the invocation a new click runs as: the lowest one that is free (the record
\* of a settled invocation is kept only until the next one replaces it)
NextProc == CHOOSE p \in ProcIds : Free(p) /\ \A q \in 1..(p - 1) : ~Free(q)

\* processAudio is called: it runs up to the await of the first fetch, with
\* the apiKey, email and audioBlob of the render it was made in
processAudio ==
  /\ \E p \in ProcIds : Free(p)
  /\ IF processGuardFails
       THEN /\ message' = MsgEnsure
            /\ procs' = [procs EXCEPT ![NextProc] =
                           [FreshProc EXCEPT !.pc = "done", !.exit = "rejected"]]
            /\ UNCHANGED isProcessing
       ELSE /\ isProcessing' = TRUE
            /\ message' = MsgTranscribing
            /\ procs' = [procs EXCEPT ![NextProc] =
                           [FreshProc EXCEPT !.pc = "awaitWhisper", !.whisper = "pending",
                                     !.nWhisper = 1, !.bearer = apiKey,
                                     !.key = apiKey, !.mail = email]]
  /\ UNCHANGED <<isRecording, audioBlob, apiKey, email, transcription,
                 hasAudio, mediaRecorderRef, audioChunksRef, starts, noopStops>>

\* click on Process Audio
ProcessClick == ProcessEnabled /\ processAudio

\* the catch block without the finally block
processCatch_NoFinally(p, pr, exit, msg) ==
  /\ procs' = [procs EXCEPT ![p] = [pr EXCEPT !.pc = "done", !.exit = exit]]
  /\ message' = msg
  /\ UNCHANGED isProcessing

\* a catch block without setMessage
processCatch_KeepsMessage(p, pr, exit, msg) ==
  /\ procs' = [procs EXCEPT ![p] = [pr EXCEPT !.pc = "done", !.exit = exit]]
  /\ isProcessing' = FALSE
  /\ UNCHANGED message

\* a catch block that issues the transcription request again
processCatch_Retries(p, pr, exit, msg) ==
  /\ procs' = [procs EXCEPT ![p] =
                 [pr EXCEPT !.pc = "awaitWhisper", !.whisper = "pending",
                            !.relay = "none", !.nWhisper = @ + 1]]
  /\ message' = msg
  /\ UNCHANGED isProcessing

\* the catch block and the finally block of processAudio
processCatch(p, pr, exit, msg) ==
  /\ procs' = [procs EXCEPT ![p] = [pr EXCEPT !.pc = "done", !.exit = exit]]
  /\ message' = msg
  /\ isProcessing' = FALSE

\* the handler without the check of whisperResponse.ok
WhisperResponse_IgnoresStatus(p, ok) ==
  /\ procs[p].pc = "awaitWhisper"
  /\ procs' = [procs EXCEPT ![p] =
                 [@ EXCEPT !.pc = "awaitJson",
                           !.whisper = IF ok THEN "ok" ELSE "fail"]]
  /\ UNCHANGED <<isRecording, audioBlob, apiKey, email, transcription,
                 isProcessing, message, hasAudio, mediaRecorderRef,
                 audioChunksRef, starts, noopStops>>

\* the transcription fetch resolves with a response
WhisperResponse(p, ok) ==
  /\ procs[p].pc = "awaitWhisper"
  /\ IF ok
       THEN /\ procs' = [procs EXCEPT ![p] =
                           [@ EXCEPT !.pc = "awaitJson", !.whisper = "ok"]]
            /\ UNCHANGED <<message, isProcessing>>
       ELSE processCatch(p, [procs[p] EXCEPT !.whisper = "fail"],
                         "whisperFail", MsgErrTranscription)
  /\ UNCHANGED <<isRecording, audioBlob, apiKey, email, transcription,
                 hasAudio, mediaRecorderRef, audioChunksRef, starts, noopStops>>

\* the transcription fetch rejects (network error)
WhisperThrow(p) ==
  /\ procs[p].pc = "awaitWhisper"
  /\ processCatch(p, [procs[p] EXCEPT !.whisper = "threw"], "threw", MsgErrOther)
  /\ UNCHANGED <<isRecording, audioBlob, apiKey, email, transcription,
                 hasAudio, mediaRecorderRef, audioChunksRef, starts, noopStops>>

\* the member JSON.stringify writes for a property: none when the value is
\* undefined
Absent == "<absent>"

stringifyMember(v) == IF v = Undefined THEN Absent ELSE v

\* a continuation that reads the email field as it is now, not its closure
JsonResolve_ReadsCurrentEmail(p, text) ==
  /\ procs[p].pc = "awaitJson"
  /\ transcription' = text
  /\ message' = MsgTranscribed
  /\ procs' = [procs EXCEPT ![p] =
                 [@ EXCEPT !.pc = "awaitLamatic", !.relay = "pending",
                           !.nRelay = @ + 1, !.text = text,
                           !.sentText = stringifyMember(text),
                           !.sentMail = email]]
  /\ UNCHANGED <<isRecording, audioBlob, apiKey, email, isProcessing,
                 hasAudio, mediaRecorderRef, audioChunksRef, starts, noopStops>>

\* the continuation without setTranscription
JsonResolve_DropsTranscript(p, text) ==
  /\ procs[p].pc = "awaitJson"
  /\ message' = MsgTranscribed
  /\ procs' = [procs EXCEPT ![p] =
                 [@ EXCEPT !.pc = "awaitLamatic", !.relay = "pending",
                           !.nRelay = @ + 1, !.text = text,
                           !.sentText = stringifyMember(text),
                           !.sentMail = procs[p].mail]]
  /\ UNCHANGED <<isRecording, audioBlob, apiKey, email, transcription,
                 isProcessing, hasAudio, mediaRecorderRef, audioChunksRef,
                 starts, noopStops>>

\* whisperResponse.json() resolves: the transcript is stored and the relay
\* fetch is issued with the text and the email of the closure
JsonResolve(p, text) ==
  /\ procs[p].pc = "awaitJson"
  /\ transcription' = text
  /\ message' = MsgTranscribed
  /\ procs' = [procs EXCEPT ![p] =
                 [@ EXCEPT !.pc = "awaitLamatic", !.relay = "pending",
                           !.nRelay = @ + 1, !.text = text,
                           !.sentText = stringifyMember(text),
                           !.sentMail = procs[p].mail]]
  /\ UNCHANGED <<isRecording, audioBlob, apiKey, email, isProcessing,
                 hasAudio, mediaRecorderRef, audioChunksRef, starts, noopStops>>

\* whisperResponse.json() rejects (malformed body)
JsonReject(p) ==
  /\ procs[p].pc = "awaitJson"
  /\ processCatch(p, procs[p], "jsonFail", MsgErrOther)
  /\ UNCHANGED <<isRecording, audioBlob, apiKey, email, transcription,
                 hasAudio, mediaRecorderRef, audioChunksRef, starts, noopStops>>

\* the relay fetch resolves with a response
LamaticResponse(p, ok) ==
  /\ procs[p].pc = "awaitLamatic"
  /\ IF ok
       THEN /\ procs' = [procs EXCEPT ![p] =
                           [@ EXCEPT !.pc = "done", !.relay = "ok",
                                     !.exit = "success"]]
            /\ message' = MsgSuccess
            /\ isProcessing' = FALSE
       ELSE processCatch(p, [procs[p] EXCEPT !.relay = "fail"],
                         "relayFail", MsgErrLamatic)
  /\ UNCHANGED <<isRecording, audioBlob, apiKey, email, transcription,
                 hasAudio, mediaRecorderRef, audioChunksRef, starts, noopStops>>

\* the relay fetch rejects (network error)
LamaticThrow(p) ==
  /\ procs[p].pc = "awaitLamatic"
  /\ processCatch(p, [procs[p] EXCEPT !.relay = "threw"], "threw", MsgErrOther)
  /\ UNCHANGED <<isRecording, audioBlob, apiKey, email, transcription,
                 hasAudio, mediaRecorderRef, audioChunksRef, starts, noopStops>>

\* a response or an error of an outstanding request of some invocation
Respond ==
  \/ \E p \in ProcIds, ok \in BOOLEAN : WhisperResponse(p, ok)
  \/ \E p \in ProcIds : WhisperThrow(p)
  \/ \E p \in ProcIds, t \in Texts : JsonResolve(p, t)
  \/ \E p \in ProcIds : JsonReject(p)
  \/ \E p \in ProcIds, ok \in BOOLEAN : LamaticResponse(p, ok)
  \/ \E p \in ProcIds : LamaticThrow(p)

Next ==
  \/ \E k \in ApiKeys : setApiKey(k)
  \/ \E e \in Emails : setEmail(e)
  \/ StartClick
  \/ \E i \in StartIds : MicResolve(i)
  \/ \E i \in StartIds : MicReject(i)
  \/ \E i \in StartIds : TabReject(i)
  \/ \E i \in StartIds, o \in SetupOutcomes : TabResolve(i, o)
  \/ \E t \in BOOLEAN : StopClick(t)
  \/ \E i \in StartIds, s \in 0..MaxChunk : RecorderStopTask(i, s)
  \/ ProcessClick
  \/ \E p \in ProcIds, ok \in BOOLEAN : WhisperResponse(p, ok)
  \/ \E p \in ProcIds : WhisperThrow(p)
  \/ \E p \in ProcIds, t \in Texts : JsonResolve(p, t)
  \/ \E p \in ProcIds : JsonReject(p)
  \/ \E p \in ProcIds, ok \in BOOLEAN : LamaticResponse(p, ok)
  \/ \E p \in ProcIds : LamaticThrow(p)

Spec == Init /\ [][Next]_vars

\* a queued recorder stop task
StopTask == \E i \in StartIds, s \in 0..MaxChunk : RecorderStopTask(i, s)

\* every issued request eventually responds or throws, and the event loop
\* runs every task MediaRecorder.stop() queued
FairSpec == Spec /\ WF_vars(Respond) /\ WF_vars(StopTask)

\* the characters typed into the email input
Alphabet == {"a", "@", ".", " ", "\""}

\* a keystroke in the email input: a character appended, or the last deleted
typeEmail ==
  \/ \E c \in Alphabet :
       Len(email) < MaxEmailLen /\ setEmail(Append(email, c))
  \/ Len(email) > 0 /\ setEmail(SubSeq(email, 1, Len(email) - 1))

\* the form before recording: every email of up to MaxEmailLen characters is
\* typed, and validateEmail decides whether Start Recording can be clicked
NextEmail ==
  \/ typeEmail
  \/ \E k \in ApiKeys : setApiKey(k)
  \/ StartClick

EmailSpec == Init /\ [][NextEmail]_vars

\* the page, with the handlers also called in states where their buttons are
\* not rendered: stopRecording in any state, processAudio before any artifact
\* exists
NextCall ==
  \/ Next
  \/ \E t \in BOOLEAN : stopRecording(t)
  \/ audioBlob = NoBlob /\ processAudio

CallSpec == Init /\ [][NextCall]_vars

\* ================================================================= claims
InFlight(p) == procs[p].pc \in {"awaitWhisper", "awaitJson", "awaitLamatic"}

Settled(p) == procs[p].pc = "done" /\ procs[p].exit # "rejected"

\* C1: the relay request of an invocation is issued only after its
\* transcription request completed with a success status; after a non-success
\* transcription response (or a thrown transcription request) the relay request
\* is issued zero times; the two requests are never outstanding together.
C1_RelayOnlyAfterTranscription ==
  \A p \in ProcIds :
    /\ procs[p].relay # "none" => procs[p].whisper = "ok"
    /\ procs[p].whisper \in {"fail", "threw"} => procs[p].relay = "none"
    /\ ~(procs[p].whisper = "pending" /\ procs[p].relay = "pending")

C1_Witness ==
  \E p \in ProcIds :
    procs[p].pc = "done" /\ procs[p].whisper = "fail" /\ procs[p].relay = "none"

\* C2: once every invocation of processAudio that set the processing flag has
\* settled (on any exit path) the flag is false, and when every issued request
\* eventually responds or throws, isProcessing = TRUE leads to
\* isProcessing = FALSE.
C2_ProcessingFlagCleared ==
  /\ []((\A p \in ProcIds : ~InFlight(p)) => ~isProcessing)
  /\ (isProcessing ~> ~isProcessing)

C2_Witness ==
  \E p \in ProcIds : procs[p].exit = "relayFail" /\ ~isProcessing

\* C3: in every reachable state at most one capture stream pair (microphone
\* stream and tab audio stream of one startRecording call) is open.
C3_AtMostOneStreamPair ==
  Cardinality({i \in StartIds :
                 starts[i].mic = "open" /\ starts[i].tab = "open"}) <= 1

\* C4: after a startRecording call has failed and the failure was handled, no
\* stream that call acquired is still open.
C4_NoStreamLeftOpenOnFailure ==
  \A i \in StartIds :
    starts[i].pc = "failed" => starts[i].mic # "open" /\ starts[i].tab # "open"

\* C5 (as stated): no getUserMedia or getDisplayMedia request is issued in a
\* state where the API key is empty or the email fails validateEmail.
C5_NoRequestWhileInvalid ==
  [][\A i \in StartIds :
       (starts'[i].pc # starts[i].pc /\ starts'[i].pc \in {"awaitMic", "awaitTab"})
         => CredentialsValid]_vars

\* C5 (amended): no startRecording call begins, and so no getUserMedia request
\* is issued, in a state where the API key is empty or the email fails
\* validateEmail.
C5_NoStartWhileInvalid ==
  [][\A i \in StartIds :
       (starts[i].pc = "unused" /\ starts'[i].pc # "unused") => CredentialsValid]_vars

C5_Witness ==
  /\ StartShown /\ ~CredentialsValid
  /\ \E i \in StartIds : starts[i].pc = "awaitMic"
  /\ \E i \in StartIds : starts[i].pc = "unused"

\* C6: at most one processAudio invocation has a request outstanding.
C6_SingleFlight ==
  Cardinality({p \in ProcIds : InFlight(p)}) <= 1

C6_Witness ==
  /\ isProcessing /\ ProcessShown
  /\ \E p \in ProcIds : InFlight(p)
  /\ \E p \in ProcIds : Free(p)

\* the session state the buttons and the flag show
Session ==
  IF isProcessing THEN "Processing"
  ELSE IF isRecording THEN "Recording"
  ELSE IF hasAudio THEN "Recorded"
  ELSE "Idle"

\* C7: the session state changes only along Idle -> Recording -> Recorded ->
\* Processing -> Idle; in particular a processing attempt that completes leaves
\* the session Idle.
C7_LinearLifecycle ==
  [][Session' # Session =>
       <<Session, Session'>> \in {<<"Idle", "Recording">>,
                                  <<"Recording", "Recorded">>,
                                  <<"Recorded", "Processing">>,
                                  <<"Processing", "Idle">>}]_vars

\* C8: once a processAudio attempt has completed, with success or failure,
\* audioBlob is null and hasAudio is false.
C8_ArtifactDiscarded ==
  (\E p \in ProcIds : Settled(p)) => (audioBlob = NoBlob /\ ~hasAudio)

\* C9: a stopped recording has yielded exactly one artifact, and the byte
\* length of an artifact is the sum of the sizes of the chunks its own
\* recording delivered (chunks of another recording are not included).
C9_ArtifactIsOwnChunks ==
  /\ \A i \in StartIds :
       starts[i].artifacts = (IF starts[i].rec = "stopped" THEN 1 ELSE 0)
  /\ audioBlob # NoBlob => audioBlob.size = audioBlob.own

\* C10: a call of stopRecording made while no recording is active (no recorder
\* installed, or isRecording false) stops no recorder, produces no artifact and
\* leaves isRecording, hasAudio, audioBlob and message as they were.
C10_StopWithoutRecordingIsNoop ==
  [][noopStops' # noopStops =>
       UNCHANGED <<isRecording, hasAudio, audioBlob, message, starts,
                   audioChunksRef, mediaRecorderRef>>]_vars

C10_Witness ==
  noopStops /\ mediaRecorderRef # NoRecorder /\ ~isRecording /\ hasAudio

\* the recorder of call i has stopped and everything it held is released
Released(i) ==
  /\ starts[i].rec = "stopped"
  /\ starts[i].mic = "stopped" /\ starts[i].tab = "stopped"
  /\ starts[i].ctx = "closed"

\* C11: after stopRecording stopped an active recording the session
\* eventually is Recorded (hasAudio, not isRecording) with both streams of
\* that recording stopped and its audio context closed, and a stream or
\* context is released only while it is still open (at most once).
C11_StopReachesRecorded ==
  /\ \A i \in StartIds :
       (starts[i].rec = "stopping") ~> (hasAudio /\ ~isRecording /\ Released(i))
  /\ [][\A i \in StartIds :
         /\ (starts'[i].mic = "stopped" /\ starts'[i] # starts[i])
              => starts[i].mic = "open"
         /\ (starts'[i].ctx = "closed" /\ starts'[i] # starts[i])
              => starts[i].ctx = "running"]_vars

\* C12: a call of processAudio made while there is no artifact, or the API key
\* is empty, or the email is invalid, issues no request, leaves isProcessing,
\* transcription and audioBlob as they were and only sets the message.
C12_GuardedCallOnlySetsMessage ==
  [][\A p \in ProcIds :
       (/\ Free(p) /\ procs'[p] # procs[p]
        /\ (audioBlob = NoBlob \/ apiKey = NoKey \/ ~validateEmail(email)))
       => /\ procs'[p].whisper = "none" /\ procs'[p].relay = "none"
          /\ ~InFlight(p)'
          /\ message' = MsgEnsure
          /\ UNCHANGED <<isRecording, audioBlob, apiKey, email, transcription,
                         isProcessing, hasAudio, mediaRecorderRef,
                         audioChunksRef, starts>>]_vars

C12_Witness ==
  /\ \E p \in ProcIds : procs[p].exit = "rejected"
  /\ message = MsgEnsure /\ ~isProcessing
  /\ audioBlob = NoBlob /\ CredentialsValid

Failures == {"whisperFail", "jsonFail", "relayFail", "threw"}

\* C13: an invocation of processAudio issues at most one transcription request
\* and at most one relay request; an invocation that failed has no request
\* outstanding, and a request is issued only by a new invocation or, for the
\* relay request, by an invocation that has not failed.
C13_NoRetry ==
  /\ [](\A p \in ProcIds :
          /\ procs[p].nWhisper <= 1 /\ procs[p].nRelay <= 1
          /\ procs[p].exit \in Failures =>
                (~InFlight(p) /\ procs[p].whisper # "pending"
                              /\ procs[p].relay # "pending"))
  /\ [][\A p \in ProcIds :
         /\ (procs'[p].whisper = "pending" /\ procs[p].whisper # "pending")
              => Free(p)
         /\ (procs'[p].relay = "pending" /\ procs[p].relay # "pending")
              => (procs[p].exit = "none" /\ procs[p].whisper = "ok"
                  /\ procs[p].nRelay = 0)]_vars

C13_Witness ==
  \E p \in ProcIds :
    /\ procs[p].pc = "done" /\ procs[p].exit = "relayFail"
    /\ procs[p].nWhisper = 1 /\ procs[p].nRelay = 1

\* what the receiver reads as the member of the parsed relay body
parseMember(m) == IF m = Absent THEN Undefined ELSE m

\* C14: when the relay call of an invocation whose transcription call
\* succeeded succeeds too, the transcript is the text field of the
\* transcription response, the message is the success message, and the relay
\* request carried that text as transcribed_text.
C14_SuccessStoresTranscript ==
  [][\A p \in ProcIds :
       (procs'[p].exit = "success" /\ procs[p].exit # "success")
       => /\ transcription' = procs'[p].text
          /\ message' = MsgSuccess
          /\ parseMember(procs'[p].sentText) = procs'[p].text
          /\ procs'[p].whisper = "ok" /\ procs'[p].relay = "ok"]_vars

C14_Witness ==
  /\ \E p \in ProcIds : procs[p].exit = "success" /\ procs[p].text = "hello world"
  /\ transcription = "hello world" /\ message = MsgSuccess

\* the messages that begin with "Error"
ErrorMessages == {MsgStartError, MsgErrTranscription, MsgErrLamatic, MsgErrOther}

\* C15: when the transcription call returns a non-success status the
\* transcript is left as it was, the message is the error message
\* "Error: Transcription failed" and the processing flag is false.
C15_TranscriptionFailure ==
  [][\A p \in ProcIds :
       (procs[p].whisper = "pending" /\ procs'[p].whisper = "fail")
       => /\ transcription' = transcription
          /\ message' = MsgErrTranscription /\ message' \in ErrorMessages
          /\ ~isProcessing']_vars

C15_Witness ==
  /\ \E p \in ProcIds : procs[p].exit = "whisperFail"
  /\ transcription = NoText /\ message = MsgErrTranscription /\ ~isProcessing

FormLoose(s) ==
  \E i \in 1..Len(s), j \in 1..Len(s) :
    /\ i > 1 /\ s[i] = "@"
    /\ j > i + 1 /\ j < Len(s) /\ s[j] = "."
    /\ \A k \in (i + 1)..(j - 1) : s[k] # "\""

\* the same, with neither white space nor "@" in l and in r
FormStrict(s) ==
  \E i \in 1..Len(s), j \in 1..Len(s) :
    /\ i > 1 /\ s[i] = "@"
    /\ j > i + 1 /\ j < Len(s) /\ s[j] = "."
    /\ \A k \in (i + 1)..(j - 1) : s[k] # "\""
    /\ \A k \in (1..(i - 1)) \cup ((j + 1)..Len(s)) : s[k] \notin {" ", "@"}

NoAt(s) == \A i \in 1..Len(s) : s[i] # "@"

\* no "." comes after the last "@"
NoDotAfterAt(s) ==
  \A j \in 1..Len(s) : s[j] = "." => \E i \in (j + 1)..Len(s) : s[i] = "@"

\* C17 (as stated): validateEmail is true of every string of the form
\* <nonempty>@<nonempty-no-quote>.<nonempty> and false of every string without
\* "@" or without "." after the "@".
C17_ValidateEmailLoose ==
  /\ FormLoose(email) => validateEmail(email)
  /\ (NoAt(email) \/ NoDotAfterAt(email)) => ~validateEmail(email)

\* C17 (amended): validateEmail is true of every string of that form whose
\* first and last part hold neither white space nor "@", and false of every
\* string without "@" or without "." after the "@".
C17_ValidateEmailStrict ==
  /\ FormStrict(email) => validateEmail(email)
  /\ (NoAt(email) \/ NoDotAfterAt(email)) => ~validateEmail(email)

C17_Witness ==
  /\ FormStrict(email) /\ validateEmail(email)
  /\ \E k \in 1..Len(email) : email[k] = " "
  /\ \E i \in StartIds : starts[i].pc = "awaitMic"

\* C18: in every state where a recording has just been started the transcript
\* is the empty string.
C18_TranscriptClearedOnStart ==
  [][\A i \in StartIds :
       (starts'[i].rec = "recording" /\ starts[i].rec # "recording")
       => transcription' = NoText]_vars

\* C19: the processing flag is cleared only by a step in which an outstanding
\* request of processAudio gets its response or its error and the invocation
\* settles; no other step (user action, recorder event) clears it, so while
\* no response arrives the session stays in Processing.
C19_OnlyResponsesClearProcessing ==
  [][(isProcessing /\ ~isProcessing')
       => \E p \in ProcIds :
            /\ InFlight(p) /\ procs'[p].pc = "done"
            /\ procs'[p].exit \in Failures \cup {"success"}]_vars

C19_Witness ==
  /\ isProcessing /\ Session = "Processing"
  /\ \E p \in ProcIds : InFlight(p)
  /\ apiKey = NoKey /\ email = BadEmail

\* C20: the bearer token of every transcription request is a non-empty API
\* key and the user_email of every relay request satisfies validateEmail,
\* whatever the fields hold when the request is issued.
C20_RequestsUseGuardedCredentials ==
  \A p \in ProcIds :
    /\ procs[p].whisper # "none" => procs[p].bearer # NoKey
    /\ procs[p].relay # "none" => validateEmail(procs[p].sentMail)

C20_Witness ==
  /\ \E p \in ProcIds : procs[p].relay = "pending"
  /\ ~validateEmail(email) /\ apiKey = NoKey
====
